---------------------------- MODULE Spec2Model ----------------------------
(***************************************************************************)
(* Rifados: raffle-ticket reservation (src/app.py) and the expiry sweeper  *)
(* (src/liberar_boletos.py).                                               *)
(*                                                                         *)
(* The store is the two tables `boletos` and `participantes`.  Every web   *)
(* request and every sweeper run works in a SQLAlchemy session of its own: *)
(* it reads rows, changes the loaded objects and, at db.session.commit(),  *)
(* sends  UPDATE boletos SET <changed columns> WHERE id = <id>.  Nothing   *)
(* in the code locks a row or re-checks it at commit, so the steps of      *)
(* different sessions interleave at the store accesses.                    *)
(*                                                                         *)
(* The routes that only read (index, admin, GET /apartar) change nothing   *)
(* and are left out.                                                       *)
(*                                                                         *)
(* Spec    : the handlers as their store accesses, interleaved.            *)
(* SeqSpec : each handler runs from request to response with no other      *)
(*           session in between (the sequential reading of the contracts). *)
(***************************************************************************)
EXTENDS Integers, FiniteSets, Sequences, TLC

VARIABLES
    boletos,        \* table boletos: id -> row
    participantes,  \* table participantes: id -> row (committed rows only)
    now,            \* datetime.utcnow(), in minutes
    ticks,          \* how many times the clock has advanced
    pc,             \* per session: the store access it has reached
    ses,            \* per session: the objects loaded in the session
    resp            \* the response of the handler that finished last

vars == <<boletos, participantes, now, ticks, pc, ses, resp>>

----------------------------------------------------------------------------
(* Bounds *)

\* Tickets the bootstrap block creates (range(0, 100) in the source).
NumBoletos == 2
\* Number of clock advances explored.
MaxTicks == 2

(* Program constants *)

TIEMPO_LIMITE_MINUTOS == 120
ADMIN_SECRET_CODE == "admin123"

(* Inputs *)

Procs == {"s1", "s2"}
\* Submitted forms (nombre, email, telefono); the third re-uses the first
\* email under another name and phone.
Formularios ==
    { [nombre |-> "Ana",  email |-> "ana@x.com",  telefono |-> "555"],
      [nombre |-> "Beto", email |-> "beto@x.com", telefono |-> "556"],
      [nombre |-> "Caro", email |-> "ana@x.com",  telefono |-> "557"] }
Codigos == {ADMIN_SECRET_CODE, "admin124"}
\* The session that runs the handlers of a sequential run.
ProcsSeq == {"s1"}
\* Clock advances, in minutes: a reservation is then 0, exactly
\* TIEMPO_LIMITE_MINUTOS, or more than TIEMPO_LIMITE_MINUTOS minutes old.
Pasos == {TIEMPO_LIMITE_MINUTOS}
\* Ticket numbers and ticket ids a request may name (one of each is absent).
Numeros == 0 .. NumBoletos
Ids == 1 .. (NumBoletos + 1)

----------------------------------------------------------------------------
(* Nullable columns: NULL is the empty tuple, a value v is <<v>>. *)

NULL == << >>
Some(v) == <<v>>
Val(c) == c[1]

Max(S) == CHOOSE x \in S : \A y \in S : y <= x

----------------------------------------------------------------------------
(* Tables *)

\* class Boleto: a fresh row, estado 'disponible' and both nullable
\* columns NULL.
NuevoBoleto(i) ==
    [numero_boleto   |-> i,
     estado          |-> "disponible",
     fecha_apartado  |-> NULL,
     participante_id |-> NULL]

\* Mutation of BoletoPorNumero: the lookup filters on id, not numero_boleto.
BoletoPorNumeroComoId(bs, n) == IF n \in DOMAIN bs THEN Some(n) ELSE NULL

\* Boleto.query.filter_by(numero_boleto=n).first(): the id, or NULL.
BoletoPorNumero(bs, n) ==
    LET hit == {i \in DOMAIN bs : bs[i].numero_boleto = n}
    IN  IF hit = {} THEN NULL ELSE Some(CHOOSE i \in hit : TRUE)

\* Boleto.query.get(id): the id, or NULL.
BoletoPorId(bs, i) == IF i \in DOMAIN bs THEN Some(i) ELSE NULL

\* Participante.query.filter_by(email=email).first(): the id, or NULL.
ParticipantePorEmail(ps, e) ==
    LET hit == {i \in DOMAIN ps : ps[i].email = e}
    IN  IF hit = {} THEN NULL ELSE Some(CHOOSE i \in hit : TRUE)

\* Mutation of EmailUnico: the column without its unique constraint.
EmailSinRestriccion(ps, e) == TRUE

\* Participante.email is unique=True: an INSERT of email e is refused when a
\* committed row holds e.
EmailUnico(ps, e) == \A i \in DOMAIN ps : ps[i].email # e

\* Participante(nombre=..., email=..., telefono=...)
NuevoParticipante(f) ==
    [nombre |-> f.nombre, email |-> f.email, telefono |-> f.telefono]

\* Mutation of GuardarParticipante: a participant found by email takes the
\* name and phone of the form.
GuardarParticipanteActualizando(ps, pid, f, nuevo) ==
    IF nuevo
    THEN ps @@ (pid :> NuevoParticipante(f))
    ELSE [ps EXCEPT ![pid].nombre = f.nombre, ![pid].telefono = f.telefono]

\* apartar: the participant found by email is used as it is; only when none
\* was found is a row added (db.session.add, flush) and published at commit.
GuardarParticipante(ps, pid, f, nuevo) ==
    IF nuevo THEN ps @@ (pid :> NuevoParticipante(f)) ELSE ps

\* Mutation of MarcarApartado: the participant assignment is missing.
MarcarApartadoSinParticipante(bs, i, pid, t) ==
    [bs EXCEPT ![i].estado = "apartado",
               ![i].fecha_apartado = Some(t)]

\* Mutation of MarcarApartado: the timestamp assignment is missing.
MarcarApartadoSinFecha(bs, i, pid, t) ==
    [bs EXCEPT ![i].estado = "apartado",
               ![i].participante_id = Some(pid)]

\* apartar: the three assignments to the loaded boleto. The row was loaded
\* 'disponible' with both nullable columns NULL, so all three columns differ
\* from the loaded values and the UPDATE at commit sets all three.
MarcarApartado(bs, i, pid, t) ==
    [bs EXCEPT ![i].estado = "apartado",
               ![i].participante_id = Some(pid),
               ![i].fecha_apartado = Some(t)]

\* Mutation of CodigoValido: the secret is not compared.
CodigoSinVerificar(c) == TRUE

\* confirmar: if codigo_secreto != ADMIN_SECRET_CODE: return ..., 403
CodigoValido(c) == c = ADMIN_SECRET_CODE

\* Mutation of MarcarVendido: only a reserved ticket is sold.
MarcarVendidoSoloApartado(bs, i, visto) ==
    IF visto = "apartado" THEN [bs EXCEPT ![i].estado = "vendido"] ELSE bs

\* Mutation of MarcarVendido: the sale also clears the timestamp.
MarcarVendidoLimpiando(bs, i, visto) ==
    [bs EXCEPT ![i].estado = "vendido", ![i].fecha_apartado = NULL]

\* confirmar: boleto.estado = 'vendido'; the UPDATE is sent only when the
\* loaded estado differs from the assigned one.
MarcarVendido(bs, i, visto) ==
    IF visto = "vendido" THEN bs ELSE [bs EXCEPT ![i].estado = "vendido"]

\* Mutation of LimiteDeTiempo: the limit taken in hours (timedelta(hours=...)).
LimiteEnHoras(t) == t - 60 * TIEMPO_LIMITE_MINUTOS

\* limite_de_tiempo = utcnow() - timedelta(minutes=TIEMPO_LIMITE_MINUTOS)
LimiteDeTiempo(t) == t - TIEMPO_LIMITE_MINUTOS

\* Mutation of Expirado: the comparison is <= instead of <.
ExpiradoInclusivo(b, limite) ==
    /\ b.estado = "apartado"
    /\ b.fecha_apartado # NULL
    /\ Val(b.fecha_apartado) <= limite

\* The sweeper's query: estado == 'apartado' and fecha_apartado < limite
\* (a NULL fecha_apartado never satisfies the comparison).
Expirado(b, limite) ==
    /\ b.estado = "apartado"
    /\ b.fecha_apartado # NULL
    /\ Val(b.fecha_apartado) < limite

BoletosALiberar(bs, limite) == {i \in DOMAIN bs : Expirado(bs[i], limite)}

\* Mutation of Liberar: the loop resets only one row of the batch.
LiberarSoloUno(bs, lote) ==
    [i \in DOMAIN bs |->
        IF lote # {} /\ i = CHOOSE j \in lote : TRUE
        THEN [bs[i] EXCEPT !.estado = "disponible",
                           !.participante_id = NULL,
                           !.fecha_apartado = NULL]
        ELSE bs[i]]

\* Mutation of Liberar: the loop forgets boleto.estado = 'disponible'.
LiberarSinEstado(bs, lote) ==
    [i \in DOMAIN bs |->
        IF i \in lote
        THEN [bs[i] EXCEPT !.participante_id = NULL, !.fecha_apartado = NULL]
        ELSE bs[i]]

\* The sweeper's loop over the batch: the three resets of each loaded row.
\* Every row of the batch was loaded 'apartado' with both nullable columns
\* set, so the UPDATE at commit sets all three columns of each.
Liberar(bs, lote) ==
    [i \in DOMAIN bs |->
        IF i \in lote
        THEN [bs[i] EXCEPT !.estado = "disponible",
                           !.participante_id = NULL,
                           !.fecha_apartado = NULL]
        ELSE bs[i]]

\* Participante.boletos: the relationship over Boleto.participante_id.
BoletosDe(bs, pid) == {i \in DOMAIN bs : bs[i].participante_id = Some(pid)}

\* Mutation of BoletosIniciales: the numbering starts at 1.
BoletosInicialesDesdeUno(n) == [i \in 1 .. n |-> NuevoBoleto(i)]

\* Boleto.query.count() == 0, then 100 rows numbered from 0, ids from 1.
BoletosIniciales(n) == [i \in 1 .. n |-> NuevoBoleto(i - 1)]

----------------------------------------------------------------------------
(* Sessions *)

SesVacia ==
    [boleto |-> NULL, form |-> NULL, part |-> NULL, lote |-> {}, visto |-> ""]

Resp(c, n) == [cod |-> c, n |-> n]
SinResp == Resp("none", 0)

\* Rows INSERTed by a flush and not yet committed.
Pendientes == {p \in Procs : pc[p] = "apartar_flushed"}

\* The id the store hands to a new participantes row.
SiguienteId ==
    Max({0} \cup DOMAIN participantes \cup {Val(ses[p].part) : p \in Pendientes}) + 1

Init ==
    /\ boletos = << >>
    /\ participantes = << >>
    /\ now = 0
    /\ ticks = 0
    /\ pc = [p \in Procs |-> "idle"]
    /\ ses = [p \in Procs |-> SesVacia]
    /\ resp = SinResp

----------------------------------------------------------------------------
(* Clock and bootstrap *)

Tick(d) ==
    /\ ticks < MaxTicks
    /\ now' = now + d
    /\ ticks' = ticks + 1
    /\ UNCHANGED <<boletos, participantes, pc, ses, resp>>

\* The block under `with app.app_context()` of app.py, run whenever the
\* module is imported (the web process start, and each sweeper start).
Bootstrap ==
    /\ boletos' = IF Cardinality(DOMAIN boletos) = 0
                  THEN BoletosIniciales(NumBoletos)
                  ELSE boletos
    /\ UNCHANGED <<participantes, now, ticks, pc, ses, resp>>

Finish(p, r) ==
    /\ pc' = [pc EXCEPT ![p] = "idle"]
    /\ ses' = [ses EXCEPT ![p] = SesVacia]
    /\ resp' = r

Goto(p, l, s) ==
    /\ pc' = [pc EXCEPT ![p] = l]
    /\ ses' = [ses EXCEPT ![p] = s]
    /\ resp' = resp

----------------------------------------------------------------------------
(* POST /apartar/<numero_boleto>, store access by store access *)

\* first_or_404() finds no row.
ApartarNotFound(p, n) ==
    /\ pc[p] = "idle"
    /\ BoletoPorNumero(boletos, n) = NULL
    /\ Finish(p, Resp("notfound", 0))
    /\ UNCHANGED <<boletos, participantes, now, ticks>>

\* The loaded row is not 'disponible': flash and redirect to index.
ApartarConflict(p, n) ==
    /\ pc[p] = "idle"
    /\ BoletoPorNumero(boletos, n) # NULL
    /\ boletos[Val(BoletoPorNumero(boletos, n))].estado # "disponible"
    /\ Finish(p, Resp("conflict", 0))
    /\ UNCHANGED <<boletos, participantes, now, ticks>>

\* The loaded row is 'disponible': the form is read.
ApartarLeer(p, n, f) ==
    /\ pc[p] = "idle"
    /\ BoletoPorNumero(boletos, n) # NULL
    /\ boletos[Val(BoletoPorNumero(boletos, n))].estado = "disponible"
    /\ Goto(p, "apartar_leido",
            [SesVacia EXCEPT !.boleto = BoletoPorNumero(boletos, n), !.form = Some(f)])
    /\ UNCHANGED <<boletos, participantes, now, ticks>>

\* Participante.query.filter_by(email=email).first()
ApartarBuscar(p) ==
    /\ pc[p] = "apartar_leido"
    /\ Goto(p, "apartar_buscado",
            [ses[p] EXCEPT !.part =
                ParticipantePorEmail(participantes, Val(ses[p].form).email)])
    /\ UNCHANGED <<boletos, participantes, now, ticks>>

\* db.session.add(participante); db.session.flush(): the INSERT waits while
\* another session holds an uncommitted row with the same email, and is
\* refused (IntegrityError, the request ends in a 500 and rolls back) when a
\* committed row holds it.
ApartarFlush(p) ==
    /\ pc[p] = "apartar_buscado"
    /\ ses[p].part = NULL
    /\ \A q \in Pendientes : Val(ses[q].form).email # Val(ses[p].form).email
    /\ IF EmailUnico(participantes, Val(ses[p].form).email)
       THEN Goto(p, "apartar_flushed", [ses[p] EXCEPT !.part = Some(SiguienteId)])
       ELSE Finish(p, Resp("error", 0))
    /\ UNCHANGED <<boletos, participantes, now, ticks>>

\* The assignments to the boleto and db.session.commit().
ApartarCommit(p) ==
    /\ \/ pc[p] = "apartar_buscado" /\ ses[p].part # NULL
       \/ pc[p] = "apartar_flushed"
    /\ boletos' = MarcarApartado(boletos, Val(ses[p].boleto), Val(ses[p].part), now)
    /\ participantes' =
          GuardarParticipante(participantes, Val(ses[p].part), Val(ses[p].form),
                              pc[p] = "apartar_flushed")
    /\ Finish(p, Resp("ok", 0))
    /\ UNCHANGED <<now, ticks>>

----------------------------------------------------------------------------
(* GET /confirmar/<boleto_id>/<codigo_secreto> *)

ConfirmarForbidden(p, i, c) ==
    /\ pc[p] = "idle"
    /\ ~CodigoValido(c)
    /\ Finish(p, Resp("forbidden", 0))
    /\ UNCHANGED <<boletos, participantes, now, ticks>>

ConfirmarNotFound(p, i, c) ==
    /\ pc[p] = "idle"
    /\ CodigoValido(c)
    /\ BoletoPorId(boletos, i) = NULL
    /\ Finish(p, Resp("notfound", 0))
    /\ UNCHANGED <<boletos, participantes, now, ticks>>

ConfirmarLeer(p, i, c) ==
    /\ pc[p] = "idle"
    /\ CodigoValido(c)
    /\ BoletoPorId(boletos, i) # NULL
    /\ Goto(p, "confirmar_leido",
            [SesVacia EXCEPT !.boleto = Some(i), !.visto = boletos[i].estado])
    /\ UNCHANGED <<boletos, participantes, now, ticks>>

ConfirmarCommit(p) ==
    /\ pc[p] = "confirmar_leido"
    /\ boletos' = MarcarVendido(boletos, Val(ses[p].boleto), ses[p].visto)
    /\ Finish(p, Resp("ok", 0))
    /\ UNCHANGED <<participantes, now, ticks>>

----------------------------------------------------------------------------
(* liberar_boletos_expirados() *)

\* The query finds nothing: "No se encontraron boletos expirados".
LiberarNada(p) ==
    /\ pc[p] = "idle"
    /\ BoletosALiberar(boletos, LimiteDeTiempo(now)) = {}
    /\ Finish(p, Resp("liberados", 0))
    /\ UNCHANGED <<boletos, participantes, now, ticks>>

\* The query loads the batch.
LiberarLeer(p) ==
    /\ pc[p] = "idle"
    /\ BoletosALiberar(boletos, LimiteDeTiempo(now)) # {}
    /\ Goto(p, "liberar_leido",
            [SesVacia EXCEPT !.lote = BoletosALiberar(boletos, LimiteDeTiempo(now))])
    /\ UNCHANGED <<boletos, participantes, now, ticks>>

\* The loop over the batch and the single db.session.commit().
LiberarCommit(p) ==
    /\ pc[p] = "liberar_leido"
    /\ boletos' = Liberar(boletos, ses[p].lote)
    /\ Finish(p, Resp("liberados", Cardinality(ses[p].lote)))
    /\ UNCHANGED <<participantes, now, ticks>>

----------------------------------------------------------------------------

Next ==
    \/ \E d \in Pasos : Tick(d)
    \/ Bootstrap
    \/ \E p \in Procs, n \in Numeros : ApartarNotFound(p, n)
    \/ \E p \in Procs, n \in Numeros : ApartarConflict(p, n)
    \/ \E p \in Procs, n \in Numeros, f \in Formularios : ApartarLeer(p, n, f)
    \/ \E p \in Procs : ApartarBuscar(p)
    \/ \E p \in Procs : ApartarFlush(p)
    \/ \E p \in Procs : ApartarCommit(p)
    \/ \E p \in Procs, i \in Ids, c \in Codigos : ConfirmarForbidden(p, i, c)
    \/ \E p \in Procs, i \in Ids, c \in Codigos : ConfirmarNotFound(p, i, c)
    \/ \E p \in Procs, i \in Ids, c \in Codigos : ConfirmarLeer(p, i, c)
    \/ \E p \in Procs : ConfirmarCommit(p)
    \/ \E p \in Procs : LiberarNada(p)
    \/ \E p \in Procs : LiberarLeer(p)
    \/ \E p \in Procs : LiberarCommit(p)

Spec == Init /\ [][Next]_vars

----------------------------------------------------------------------------
(* Sequential runs: a handler starts only when no other session is inside  *)
(* a handler, and the clock moves only between handlers.                   *)

Solo(p) == \A q \in Procs \ {p} : pc[q] = "idle"
Quieto == \A q \in Procs : pc[q] = "idle"

SeqNext ==
    \/ \E d \in Pasos : Quieto /\ Tick(d)
    \/ Quieto /\ Bootstrap
    \/ \E p \in ProcsSeq, n \in Numeros : Solo(p) /\ ApartarNotFound(p, n)
    \/ \E p \in ProcsSeq, n \in Numeros : Solo(p) /\ ApartarConflict(p, n)
    \/ \E p \in ProcsSeq, n \in Numeros, f \in Formularios :
          Solo(p) /\ ApartarLeer(p, n, f)
    \/ \E p \in ProcsSeq : Solo(p) /\ ApartarBuscar(p)
    \/ \E p \in ProcsSeq : Solo(p) /\ ApartarFlush(p)
    \/ \E p \in ProcsSeq : Solo(p) /\ ApartarCommit(p)
    \/ \E p \in ProcsSeq, i \in Ids, c \in Codigos :
          Solo(p) /\ ConfirmarForbidden(p, i, c)
    \/ \E p \in ProcsSeq, i \in Ids, c \in Codigos :
          Solo(p) /\ ConfirmarNotFound(p, i, c)
    \/ \E p \in ProcsSeq, i \in Ids, c \in Codigos :
          Solo(p) /\ ConfirmarLeer(p, i, c)
    \/ \E p \in ProcsSeq : Solo(p) /\ ConfirmarCommit(p)
    \/ \E p \in ProcsSeq : Solo(p) /\ LiberarNada(p)
    \/ \E p \in ProcsSeq : Solo(p) /\ LiberarLeer(p)
    \/ \E p \in ProcsSeq : Solo(p) /\ LiberarCommit(p)

SeqSpec == Init /\ [][SeqNext]_vars

----------------------------------------------------------------------------
(* Sequential runs under the scheduling the deployment gives: the clock    *)
(* keeps advancing (up to the horizon of the model), the external          *)
(* scheduler starts the sweeper again and again, and a handler that has    *)
(* started runs to its response (no operation blocks indefinitely).        *)

\* The last time the clock of the model reaches.
Horizonte == MaxTicks * TIEMPO_LIMITE_MINUTOS

Fairness ==
    /\ SF_vars(\E d \in Pasos : Quieto /\ Tick(d))
    /\ SF_vars(\E p \in ProcsSeq : Solo(p) /\ LiberarLeer(p))
    /\ \A p \in ProcsSeq :
          /\ WF_vars(ApartarBuscar(p))
          /\ WF_vars(ApartarFlush(p))
          /\ WF_vars(ApartarCommit(p))
          /\ WF_vars(ConfirmarCommit(p))
          /\ WF_vars(LiberarCommit(p))

LiveSpec == Init /\ [][SeqNext]_vars /\ Fairness

----------------------------------------------------------------------------
(* Properties *)

\* C1. Two interleaved Reserve requests for one ticket by two different
\* participants: only one commits, the other meets Conflict; a Reserve never
\* commits onto a ticket that another participant holds reserved, so the
\* owner is never overwritten.
C1_ReservaExclusiva ==
    [][\A p \in Procs :
          ApartarCommit(p) =>
             ~ /\ boletos[Val(ses[p].boleto)].estado = "apartado"
               /\ boletos[Val(ses[p].boleto)].participante_id # ses[p].part]_vars

\* C2. For every ticket, estado is 'apartado' if and only if both
\* fecha_apartado and participante_id are non-null.
C2_ApartadoSiiFechaYParticipante ==
    \A i \in DOMAIN boletos :
        boletos[i].estado = "apartado"
          <=> (boletos[i].fecha_apartado # NULL /\ boletos[i].participante_id # NULL)

\* C3. For every ticket, participante_id is non-null if and only if estado
\* is 'apartado' or 'vendido'.
C3_ParticipanteSiiApartadoOVendido ==
    \A i \in DOMAIN boletos :
        boletos[i].participante_id # NULL
          <=> boletos[i].estado \in {"apartado", "vendido"}

\* C4. For every ticket, fecha_apartado is non-null if and only if estado is
\* 'apartado' (it is null in 'disponible' and in 'vendido').
C4_FechaSiiApartado ==
    \A i \in DOMAIN boletos :
        boletos[i].fecha_apartado # NULL <=> boletos[i].estado = "apartado"

\* C5. A ticket that is 'vendido' is 'vendido' after every step of every
\* handler, in any interleaving.
C5_VendidoEsTerminal ==
    [][\A i \in DOMAIN boletos :
          boletos[i].estado = "vendido" => boletos'[i].estado = "vendido"]_vars

\* C6. A sequential sweeper run at time now releases exactly the tickets that
\* are 'apartado' with fecha_apartado < now - TIEMPO_LIMITE_MINUTOS: each
\* becomes 'disponible' with both nullable columns null, and every other
\* ticket is unchanged; a run that finds none changes nothing.
C6_Vencido(b) ==
    /\ b.estado = "apartado"
    /\ b.fecha_apartado # NULL
    /\ b.fecha_apartado[1] + TIEMPO_LIMITE_MINUTOS < now

C6_BarridoExacto ==
    [][\A p \in Procs :
          /\ LiberarCommit(p) =>
                /\ DOMAIN boletos' = DOMAIN boletos
                /\ \A i \in DOMAIN boletos :
                      IF C6_Vencido(boletos[i])
                      THEN /\ boletos'[i].estado = "disponible"
                           /\ boletos'[i].fecha_apartado = NULL
                           /\ boletos'[i].participante_id = NULL
                           /\ boletos'[i].numero_boleto = boletos[i].numero_boleto
                      ELSE boletos'[i] = boletos[i]
          /\ LiberarNada(p) =>
                /\ \A i \in DOMAIN boletos : ~C6_Vencido(boletos[i])
                /\ boletos' = boletos
          /\ (pc[p] = "idle" /\ \E i \in DOMAIN boletos : C6_Vencido(boletos[i]))
                => ~LiberarNada(p)]_vars

\* C6 witness: a run released one ticket and left untouched a ticket that was
\* reserved exactly TIEMPO_LIMITE_MINUTOS minutes ago.
C6_Witness ==
    /\ resp = Resp("liberados", 1)
    /\ \E i, j \in DOMAIN boletos :
          /\ boletos[i].estado = "disponible"
          /\ boletos[j].estado = "apartado"
          /\ boletos[j].fecha_apartado = Some(now - TIEMPO_LIMITE_MINUTOS)

\* C7. A sequential Reserve on an existing 'disponible' ticket succeeds: the
\* ticket becomes 'apartado', its timestamp is the current time and its owner
\* is the participant with the submitted email, whose ticket list holds the
\* ticket. A Reserve on a ticket that is 'apartado' yields Conflict and
\* changes neither table.
C7_ReservaSecuencial ==
    [][\A p \in Procs :
          /\ pc[p] \in {"apartar_leido", "apartar_buscado", "apartar_flushed"}
                => /\ boletos[Val(ses[p].boleto)].estado = "disponible"
                   /\ pc'[p] # "idle" \/ resp'.cod = "ok"
          /\ ApartarCommit(p) =>
                LET b == Val(ses[p].boleto)
                    e == Val(ses[p].form).email
                    dueno == ParticipantePorEmail(participantes', e)
                IN  /\ boletos'[b].estado = "apartado"
                    /\ boletos'[b].fecha_apartado = Some(now)
                    /\ dueno # NULL
                    /\ boletos'[b].participante_id = dueno
                    /\ b \in BoletosDe(boletos', Val(dueno))
                    /\ boletos'[b].numero_boleto = boletos[b].numero_boleto
                    /\ resp'.cod = "ok"
          /\ \A n \in Numeros :
                (/\ pc[p] = "idle"
                 /\ \E i \in DOMAIN boletos :
                       /\ boletos[i].numero_boleto = n
                       /\ boletos[i].estado = "apartado")
                => /\ ~ApartarNotFound(p, n)
                   /\ \A f \in Formularios : ~ApartarLeer(p, n, f)
                   /\ ApartarConflict(p, n) =>
                         /\ resp'.cod = "conflict"
                         /\ boletos' = boletos
                         /\ participantes' = participantes]_vars

\* C7 witness: a Reserve has just succeeded at a time after 0 for a
\* participant who now owns two tickets.
C7_Witness ==
    /\ resp.cod = "ok"
    /\ now > 0
    /\ \E i \in DOMAIN boletos :
          /\ boletos[i].estado = "apartado"
          /\ boletos[i].fecha_apartado = Some(now)
          /\ boletos[i].participante_id # NULL
          /\ Cardinality(BoletosDe(boletos, Val(boletos[i].participante_id))) = 2

\* C8. Confirm on an 'apartado' ticket makes it 'vendido' and leaves its
\* timestamp and participant as they were, every other ticket and every
\* participant unchanged.
C8_ConfirmarConserva ==
    [][\A p \in Procs :
          (/\ ConfirmarCommit(p)
           /\ boletos[Val(ses[p].boleto)].estado = "apartado")
          => LET b == Val(ses[p].boleto)
             IN  /\ boletos'[b].estado = "vendido"
                 /\ boletos'[b].fecha_apartado = boletos[b].fecha_apartado
                 /\ boletos'[b].participante_id = boletos[b].participante_id
                 /\ boletos'[b].numero_boleto = boletos[b].numero_boleto
                 /\ DOMAIN boletos' = DOMAIN boletos
                 /\ \A j \in DOMAIN boletos \ {b} : boletos'[j] = boletos[j]
                 /\ participantes' = participantes]_vars

\* C8 witness: a confirmed ticket that still carries the timestamp and the
\* participant of its reservation.
C8_Witness ==
    /\ resp.cod = "ok"
    /\ \E i \in DOMAIN boletos :
          /\ boletos[i].estado = "vendido"
          /\ boletos[i].fecha_apartado # NULL
          /\ boletos[i].participante_id # NULL

\* C9. No two participantes rows share an email, in any interleaving; a
\* Reserve that commits with an email some row already holds adds no row and
\* attaches the ticket to that row.
C9_EmailUnicoSiempre ==
    [][/\ \A i, j \in DOMAIN participantes' :
             participantes'[i].email = participantes'[j].email => i = j
       /\ \A p \in Procs :
             (/\ ApartarCommit(p)
              /\ ParticipantePorEmail(participantes, Val(ses[p].form).email) # NULL)
             => /\ participantes' = participantes
                /\ boletos'[Val(ses[p].boleto)].participante_id =
                      ParticipantePorEmail(participantes, Val(ses[p].form).email)]_vars

\* C9 witness: an INSERT was refused for a duplicate email (two Reserves with
\* the same unseen email were interleaved), and the row of the first exists.
C9_Witness ==
    /\ resp.cod = "error"
    /\ \E i \in DOMAIN participantes : participantes[i].email = "ana@x.com"
    /\ \E i, j \in DOMAIN boletos :
          /\ i # j
          /\ boletos[i].participante_id # NULL
          /\ boletos[i].participante_id = boletos[j].participante_id

\* C10. Bootstrap on an empty store creates exactly NumBoletos tickets,
\* numbered 0 .. NumBoletos - 1, all 'disponible' with null timestamp and null
\* owner; on a store with tickets it creates none and changes none.
C10_BootstrapIdempotente ==
    [][Bootstrap =>
          IF DOMAIN boletos = {}
          THEN /\ Cardinality(DOMAIN boletos') = NumBoletos
               /\ {boletos'[i].numero_boleto : i \in DOMAIN boletos'}
                     = 0 .. (NumBoletos - 1)
               /\ \A i \in DOMAIN boletos' :
                     /\ boletos'[i].estado = "disponible"
                     /\ boletos'[i].fecha_apartado = NULL
                     /\ boletos'[i].participante_id = NULL
          ELSE boletos' = boletos]_vars

\* C10 witness: the store holds the tickets of the bootstrap, and a ticket
\* reserved since then is still reserved.
C10_Witness ==
    /\ Cardinality(DOMAIN boletos) = NumBoletos
    /\ \E i \in DOMAIN boletos : boletos[i].estado = "apartado"
    /\ now > 0

\* C11. With the clock advancing and the sweeper started again and again,
\* every ticket that is 'apartado' with a timestamp that expires before the
\* horizon of the model, and is not confirmed, becomes 'disponible' again.
C11_ApartadoVuelveADisponible ==
    \A i \in 1 .. NumBoletos :
        (/\ i \in DOMAIN boletos
         /\ boletos[i].estado = "apartado"
         /\ Val(boletos[i].fecha_apartado) + TIEMPO_LIMITE_MINUTOS < Horizonte)
        ~> (/\ i \in DOMAIN boletos
            /\ boletos[i].estado \in {"disponible", "vendido"})

\* C11 witness: at the horizon, after a sweeper run that released a ticket,
\* no ticket is reserved although a participant exists.
C11_Witness ==
    /\ now = Horizonte
    /\ resp.cod = "liberados"
    /\ resp.n >= 1
    /\ DOMAIN participantes # {}
    /\ \A i \in DOMAIN boletos : boletos[i].estado = "disponible"

\* C12. In every committed state, under any interleaving of Reserve, Confirm
\* and sweeper, a ticket that is 'apartado' has a timestamp and a participant.
C12_ApartadoCompleto ==
    \A i \in DOMAIN boletos :
        boletos[i].estado = "apartado"
          => (boletos[i].fecha_apartado # NULL /\ boletos[i].participante_id # NULL)

\* C12 witness: a sweeper holds a ticket in its loaded batch while an
\* interleaved Reserve has committed on that ticket at the current time.
C12_Witness ==
    \E p \in Procs :
        /\ pc[p] = "liberar_leido"
        /\ \E i \in ses[p].lote :
              /\ boletos[i].estado = "apartado"
              /\ boletos[i].fecha_apartado = Some(now)
              /\ boletos[i].participante_id # NULL

\* C13. Reserve yields NotFound exactly when no ticket has the number, and
\* Conflict exactly when the ticket exists and is not 'disponible'; the two
\* responses differ, and neither changes a ticket or adds a participant.
C13_ExisteNumero(n) == \E i \in DOMAIN boletos : boletos[i].numero_boleto = n

C13_NoDisponible(n) ==
    \E i \in DOMAIN boletos :
        boletos[i].numero_boleto = n /\ boletos[i].estado # "disponible"

C13_ReservaFallida ==
    [][\A p \in Procs, n \in Numeros :
          /\ ApartarNotFound(p, n) =>
                /\ ~C13_ExisteNumero(n)
                /\ resp'.cod = "notfound"
                /\ boletos' = boletos
                /\ participantes' = participantes
          /\ ApartarConflict(p, n) =>
                /\ C13_NoDisponible(n)
                /\ resp'.cod = "conflict"
                /\ boletos' = boletos
                /\ participantes' = participantes
          /\ (pc[p] = "idle" /\ ~C13_ExisteNumero(n)) =>
                /\ ~ApartarConflict(p, n)
                /\ \A f \in Formularios : ~ApartarLeer(p, n, f)
          /\ (pc[p] = "idle" /\ C13_NoDisponible(n)) =>
                /\ ~ApartarNotFound(p, n)
                /\ \A f \in Formularios : ~ApartarLeer(p, n, f)]_vars

\* C13 witness: the last response is Conflict, given for a sold ticket (no
\* ticket is reserved), and the only participant is the one stored before.
C13_Witness ==
    /\ resp.cod = "conflict"
    /\ \E i \in DOMAIN boletos : boletos[i].estado = "vendido"
    /\ \A i \in DOMAIN boletos : boletos[i].estado # "apartado"
    /\ Cardinality(DOMAIN participantes) = 1

\* C14. Confirm with a wrong secret answers Forbidden and changes nothing,
\* whether or not the ticket id exists; with the correct secret and an id no
\* ticket has, it answers NotFound and changes nothing.
C14_ConfirmarRechazado ==
    [][\A p \in Procs, i \in Ids, c \in Codigos :
          /\ (pc[p] = "idle" /\ c # ADMIN_SECRET_CODE) =>
                /\ ~ConfirmarNotFound(p, i, c)
                /\ ~ConfirmarLeer(p, i, c)
                /\ ConfirmarForbidden(p, i, c) =>
                      /\ resp'.cod = "forbidden"
                      /\ boletos' = boletos
                      /\ participantes' = participantes
          /\ (pc[p] = "idle" /\ c = ADMIN_SECRET_CODE /\ i \notin DOMAIN boletos) =>
                /\ ~ConfirmarForbidden(p, i, c)
                /\ ~ConfirmarLeer(p, i, c)
                /\ ConfirmarNotFound(p, i, c) =>
                      /\ resp'.cod = "notfound"
                      /\ boletos' = boletos
                      /\ participantes' = participantes]_vars

\* C14 witness: Forbidden was answered while a reserved ticket, which a
\* Confirm could have sold, is still reserved.
C14_Witness ==
    /\ resp.cod = "forbidden"
    /\ \E i \in DOMAIN boletos : boletos[i].estado = "apartado"

\* C15. A sweeper pass is idempotent: when a pass ends, no reserved ticket is
\* older than the timeout at that same time, and a pass started in such a
\* state releases zero tickets and leaves the store unchanged.
C15_SinVencidos(bs, t) ==
    \A i \in DOMAIN bs :
        ~(/\ bs[i].estado = "apartado"
          /\ bs[i].fecha_apartado # NULL
          /\ bs[i].fecha_apartado[1] + TIEMPO_LIMITE_MINUTOS < t)

C15_BarridoIdempotente ==
    [][\A p \in Procs :
          /\ (LiberarCommit(p) \/ LiberarNada(p)) =>
                (now' = now /\ C15_SinVencidos(boletos', now'))
          /\ (pc[p] = "idle" /\ C15_SinVencidos(boletos, now)) =>
                /\ ~LiberarLeer(p)
                /\ LiberarNada(p) =>
                      /\ resp'.cod = "liberados"
                      /\ resp'.n = 0
                      /\ boletos' = boletos
                      /\ participantes' = participantes]_vars

\* C15 witness: a pass has reported zero releases on a store whose tickets
\* were all released before (a participant is left holding none).
C15_Witness ==
    /\ resp = Resp("liberados", 0)
    /\ boletos # <<>>
    /\ \A i \in DOMAIN boletos : boletos[i].estado = "disponible"
    /\ \E q \in DOMAIN participantes : BoletosDe(boletos, q) = {}

\* C16. No step deletes a participant or changes a participant's name, email
\* or phone; Confirm and the sweeper leave the participant table unchanged,
\* and a Reserve that reuses an email leaves the stored row as it was.
C16_ParticipantesEstables ==
    [][/\ \A q \in DOMAIN participantes :
             q \in DOMAIN participantes' /\ participantes'[q] = participantes[q]
       /\ \A p \in Procs :
             /\ (\/ ConfirmarCommit(p)
                 \/ LiberarCommit(p)
                 \/ LiberarNada(p)
                 \/ \E i \in Ids, c \in Codigos :
                       ConfirmarForbidden(p, i, c) \/ ConfirmarNotFound(p, i, c))
                   => participantes' = participantes
             /\ (pc[p] = "apartar_buscado" /\ ses[p].part # NULL /\ ApartarCommit(p))
                   => participantes' = participantes]_vars

\* C16 witness: one participant holds both tickets, one of them sold, after a
\* Reserve that found the participant by email and a Confirm.
C16_Witness ==
    /\ Cardinality(DOMAIN participantes) = 1
    /\ \E q \in DOMAIN participantes : Cardinality(BoletosDe(boletos, q)) = 2
    /\ \E i \in DOMAIN boletos : boletos[i].estado = "vendido"
    /\ \E i \in DOMAIN boletos : boletos[i].estado = "apartado"

\* C17. Confirm with the correct secret on an existing ticket succeeds whatever
\* the ticket's status: it is answered neither Forbidden nor NotFound, the
\* ticket ends 'vendido', and no other field of it, no other ticket and no
\* participant changes.
C17_ConfirmarCualquierEstado ==
    [][\A p \in Procs :
          /\ \A i \in Ids, c \in Codigos :
                (pc[p] = "idle" /\ c = ADMIN_SECRET_CODE /\ i \in DOMAIN boletos) =>
                    /\ ~ConfirmarForbidden(p, i, c)
                    /\ ~ConfirmarNotFound(p, i, c)
                    /\ ConfirmarLeer(p, i, c) =>
                          (pc'[p] = "confirmar_leido" /\ ses'[p].boleto = Some(i))
          /\ ConfirmarCommit(p) =>
                /\ resp'.cod = "ok"
                /\ DOMAIN boletos' = DOMAIN boletos
                /\ \A j \in DOMAIN boletos :
                      IF Some(j) = ses[p].boleto
                      THEN /\ boletos'[j].estado = "vendido"
                           /\ boletos'[j].numero_boleto = boletos[j].numero_boleto
                           /\ boletos'[j].fecha_apartado = boletos[j].fecha_apartado
                           /\ boletos'[j].participante_id = boletos[j].participante_id
                      ELSE boletos'[j] = boletos[j]
                /\ participantes' = participantes]_vars

\* C17 witness: a Confirm succeeded on a ticket that was never reserved (it is
\* sold with no participant), and on no other.
C17_Witness ==
    /\ resp.cod = "ok"
    /\ participantes = <<>>
    /\ \E i \in DOMAIN boletos :
          boletos[i].estado = "vendido" /\ boletos[i].participante_id = NULL

\* C18. In any interleaving of sweeper passes and Reserve, a sweeper's commit
\* releases only reservations older than the timeout: every ticket it turns
\* from 'apartado' to 'disponible' has a timestamp before now - timeout.
C18_NoLiberaReservaVigente ==
    [][\A p \in Procs :
          LiberarCommit(p) =>
              \A i \in DOMAIN boletos :
                  (/\ boletos[i].estado = "apartado"
                   /\ boletos'[i].estado = "disponible")
                  => (/\ boletos[i].fecha_apartado # NULL
                      /\ boletos[i].fecha_apartado[1] < now - TIEMPO_LIMITE_MINUTOS)]_vars

\* C19. A sweeper pass publishes its releases in one commit: while the pass
\* holds its batch every selected ticket is still reserved in the store, the
\* commit makes all of them available in one step, no other step makes a
\* reserved ticket available, and the reported count is the size of the
\* batch, which is the number of tickets the commit released.
C19_Liberados ==
    {i \in DOMAIN boletos :
        boletos[i].estado = "apartado" /\ boletos'[i].estado = "disponible"}

C19_UnSoloCommit ==
    [][/\ \A p \in Procs :
             /\ pc[p] = "liberar_leido" =>
                   \A i \in ses[p].lote : boletos[i].estado = "apartado"
             /\ LiberarCommit(p) =>
                   /\ \A i \in ses[p].lote : boletos'[i].estado = "disponible"
                   /\ C19_Liberados = ses[p].lote
                   /\ resp'.cod = "liberados"
                   /\ resp'.n = Cardinality(ses[p].lote)
                   /\ resp'.n = Cardinality(C19_Liberados)
       /\ C19_Liberados # {} => \E p \in Procs : LiberarCommit(p)]_vars

\* C19 witness: one pass has reported two releases and both tickets are
\* available.
C19_Witness ==
    /\ resp = Resp("liberados", 2)
    /\ \A i \in DOMAIN boletos : boletos[i].estado = "disponible"
    /\ Cardinality(DOMAIN boletos) >= 2

=============================================================================
